---- MODULE Spec2Model ----
(***************************************************************************)
(* Model of ctfd_sdk/api.py: the request dispatcher (CtfdConnector), the   *)
(* local cache store (Storage) and the entity operations facade (CtfdApi). *)
(*                                                                         *)
(* A facade call is one action.  The Python call chain is written as       *)
(* operators over a call context c = [file, log, resps, exc, ret]:         *)
(*   file  the cache file (Storage.storage_path) as the call sees it,      *)
(*   log   the HTTP requests issued so far, each with the response it got  *)
(*         and the cache file as it stood when the request was sent,       *)
(*   resps the responses the remote service will give to the next calls,   *)
(*   exc   the exception propagating out of the call (NoExc when none),    *)
(*   ret   the value returned by the last helper.                          *)
(***************************************************************************)
EXTENDS Integers, Sequences, FiniteSets, Bags, TLC

VARIABLES
    file,   \* the cache file: [exists, content]
    pc,     \* "idle": the script is between two facade calls; "returned": a call just ended
    op,     \* the facade call that just ended (name and arguments)
    pre,    \* the cache file when that call started
    out,    \* outcome of the blocking variant:      [file, log, exc]
    aout,   \* outcome of the non-blocking variant:  [file, log, exc]
    remote, \* the entities the script has created on the remote service and not yet
            \* deleted there: a bag of <<kind, id>> (history of the calls that succeeded)
    disk,   \* the cache file as bytes, for processes that share it: [exists, text]
    procs,  \* those processes: where each one is in its Storage call
    last    \* the save_storage that finished last: [proc, text]

scriptvars == <<file, pc, op, pre, out, aout, remote>>

procvars == <<disk, procs, last>>

vars == <<file, pc, op, pre, out, aout, remote, disk, procs, last>>

-----------------------------------------------------------------------------
(* Bounds and input sets *)

MaxId == 2

Ids == 1..MaxId

UserNames == {"alice"}

TeamNames == {"red", "blue"}

ChallengeNames == {"chal"}

FlagNames == {"flag"}

Statuses == {200, 201, 204, 500}

Token == "secret"

Host == "http://localhost:8000"

None == 0

-----------------------------------------------------------------------------
(* Python dict with insertion order: a sequence of [name, rec] items *)

Keys(d) == {d[i].name : i \in DOMAIN d}

KeyList(d) == [i \in DOMAIN d |-> d[i].name]

GetItem(d, n) == d[CHOOSE i \in DOMAIN d : d[i].name = n].rec

SetItem(d, n, r) ==
    IF n \in Keys(d)
    THEN [i \in DOMAIN d |-> IF d[i].name = n THEN [name |-> n, rec |-> r] ELSE d[i]]
    ELSE Append(d, [name |-> n, rec |-> r])

DelItem(d, n) == SelectSeq(d, LAMBDA e : e.name # n)

-----------------------------------------------------------------------------
(* Exceptions *)

NoExc == [type |-> "None", msg |-> ""]

CTFdException(msg) == [type |-> "CTFdException", msg |-> msg]

KeyError(key) == [type |-> "KeyError", msg |-> key]

Raised(c) == c.exc # NoExc

Raise(c, e) == [c EXCEPT !.exc = e]

Return(c, v) == [c EXCEPT !.ret = v]

\* x = <expression>; <rest of the function body using x>
Bind(x, F(_)) == F(x)

\* c = <call>; the statements after the call run only when it did not raise
Then(c, F(_)) == IF Raised(c) THEN c ELSE F(c)

-----------------------------------------------------------------------------
(* Remote service responses *)

DataText(i) == "{\"data\": {\"id\": " \o ToString(i) \o "}}"

PlainText == "{\"success\": true}"

DataResponses ==
    {[status_code |-> s, json |-> [data |-> [id |-> i]], text |-> DataText(i)] :
        s \in Statuses, i \in Ids}

PlainResponses ==
    {[status_code |-> s, json |-> [success |-> TRUE], text |-> PlainText] : s \in Statuses}

Responses == DataResponses \cup PlainResponses

Transport(resps) ==
    IF resps = <<>>
    THEN [status_code |-> 200, json |-> [success |-> TRUE], text |-> PlainText]
    ELSE Head(resps)

-----------------------------------------------------------------------------
(* CtfdConnector *)

set_args_kwargs(path, kwargs) ==
    LET url == Host \o "/api/v1" \o path
        h0 == IF "headers" \in DOMAIN kwargs THEN kwargs.headers ELSE <<>>
        h1 == ("Content-Type" :> "application/json") @@ h0
        h2 == ("Authorization" :> ("Token " \o Token)) @@ h1
    IN  [url |-> url, kwargs |-> ("headers" :> h2) @@ kwargs]

BadResponseMsg(func, url, response) ==
    "Unable to get response in method " \o func \o " from url " \o url
        \o "  in CTFd: " \o response.text

\* mutant: a 500 response is taken for a success
handle_bad_response_Accepts500(func, url, response) ==
    IF response.status_code \in {200, 201, 500}
    THEN NoExc
    ELSE CTFdException(BadResponseMsg(func, url, response))

\* mutant: every 2xx status is taken for a success
handle_bad_response_Any2xx(func, url, response) ==
    IF response.status_code \in 200..299
    THEN NoExc
    ELSE CTFdException(BadResponseMsg(func, url, response))

handle_bad_response(func, url, response) ==
    IF response.status_code \in {200, 201}
    THEN NoExc
    ELSE CTFdException(BadResponseMsg(func, url, response))

\* the HTTP call of the wrapped method: the request goes out, its response comes back
Issue(c, verb, a, response) ==
    [c EXCEPT !.log = Append(@, [method |-> verb, url |-> a.url, kwargs |-> a.kwargs,
                                 response |-> response, cache |-> c.file]),
              !.resps = IF @ = <<>> THEN @ ELSE Tail(@),
              !.ret = response]

assign_host(c, func, verb, path, kwargs) ==
    Bind(set_args_kwargs(path, kwargs), LAMBDA a :
    Bind(Transport(c.resps), LAMBDA response :
        Raise(Issue(c, verb, a, response), handle_bad_response(func, a.url, response))))

\* mutant: the non-blocking wrapper sends the request without the Authorization header
aassign_host_NoAuth(c, func, verb, path, kwargs) ==
    Bind([url |-> Host \o "/api/v1" \o path,
          kwargs |-> ("headers" :> ("Content-Type" :> "application/json")) @@ kwargs],
         LAMBDA a :
    Bind(Transport(c.resps), LAMBDA response :
        Raise(Issue(c, verb, a, response), handle_bad_response(func, a.url, response))))

aassign_host(c, func, verb, path, kwargs) ==
    Bind(set_args_kwargs(path, kwargs), LAMBDA a :
    Bind(Transport(c.resps), LAMBDA response :
        Raise(Issue(c, verb, a, response), handle_bad_response(func, a.url, response))))

post(c, path, kwargs) == assign_host(c, "post", "POST", path, kwargs)

patch(c, path, kwargs) == assign_host(c, "patch", "PATCH", path, kwargs)

delete(c, path, kwargs) == assign_host(c, "delete", "DELETE", path, kwargs)

apost(c, path, kwargs) == aassign_host(c, "apost", "POST", path, kwargs)

apatch(c, path, kwargs) == aassign_host(c, "apatch", "PATCH", path, kwargs)

adelete(c, path, kwargs) == aassign_host(c, "adelete", "DELETE", path, kwargs)

-----------------------------------------------------------------------------
(* Storage *)

EmptyDoc == [users |-> <<>>, teams |-> <<>>, challenges |-> <<>>, flags |-> <<>>]

NoFile == [exists |-> FALSE, content |-> EmptyDoc]

\* mutant: load rewrites the file with four empty collections every time
get_storage_Reset(c) ==
    [c EXCEPT !.file = [exists |-> TRUE, content |-> EmptyDoc], !.ret = EmptyDoc]

get_storage(c) ==
    IF ~c.file.exists
    THEN [c EXCEPT !.file = [exists |-> TRUE, content |-> EmptyDoc], !.ret = EmptyDoc]
    ELSE [c EXCEPT !.ret = c.file.content]

\* the message quotes the field with backquotes; they are written ' here
NotFoundMsg(field, name) == name \o " not found in storage '" \o field \o "'"

\* mutant: no presence check before the lookup, which then raises KeyError
get_field_from_storage_NoCheck(c, field, name) ==
    Bind(get_storage(c), LAMBDA c1 :
        IF name \notin Keys(c1.ret[field])
        THEN Raise(c1, KeyError(name))
        ELSE Return(c1, GetItem(c1.ret[field], name)))

get_field_from_storage(c, field, name) ==
    Bind(get_storage(c), LAMBDA c1 :
        IF name \notin Keys(c1.ret[field])
        THEN Raise(c1, CTFdException(NotFoundMsg(field, name)))
        ELSE Return(c1, GetItem(c1.ret[field], name)))

save_storage(c, storage) == [c EXCEPT !.file = [exists |-> TRUE, content |-> storage]]

\* mutant: the new entry is put in the loaded document, which is never saved
update_storage_field_from_response_NoSave(c, response, field, name) ==
    IF "data" \notin DOMAIN response.json
    THEN Raise(c, KeyError("data"))
    ELSE get_storage(c)

update_storage_field_from_response(c, response, field, name) ==
    IF "data" \notin DOMAIN response.json
    THEN Raise(c, KeyError("data"))
    ELSE Bind(get_storage(c), LAMBDA c1 :
            save_storage(c1, [c1.ret EXCEPT
                                 ![field] = SetItem(@, name, [id |-> response.json.data.id])]))

\* mutant: the presence check always answers no
exist_in_field_Never(c, field, name) ==
    Bind(get_storage(c), LAMBDA c1 : Return(c1, FALSE))

exist_in_field(c, field, name) ==
    Bind(get_storage(c), LAMBDA c1 : Return(c1, name \in Keys(c1.ret[field])))

\* mutant: the entry stays in the document that is saved
delete_storage_field_Keep(c, field, name) ==
    Bind(get_storage(c), LAMBDA c1 :
        IF name \notin Keys(c1.ret[field])
        THEN Raise(c1, KeyError(name))
        ELSE save_storage(c1, c1.ret))

delete_storage_field(c, field, name) ==
    Bind(get_storage(c), LAMBDA c1 :
        IF name \notin Keys(c1.ret[field])
        THEN Raise(c1, KeyError(name))
        ELSE save_storage(c1, [c1.ret EXCEPT ![field] = DelItem(@, name)]))

-----------------------------------------------------------------------------
(* CtfdApi: users *)

_create_user_core(c, response, username) ==
    IF "data" \notin DOMAIN response.json
    THEN Raise(c, KeyError("data"))
    ELSE Bind(get_storage(c), LAMBDA c1 :
            save_storage(c1, [c1.ret EXCEPT
                !.users = SetItem(@, username,
                                  [id |-> response.json.data.id, team_id |-> None])]))

UserExistsMsg(username) == "User " \o username \o " already registered in CTFd"

_create_user_request(c, username, is_admin) ==
    Bind(exist_in_field(c, "users", username), LAMBDA c1 :
        IF c1.ret
        THEN Raise(c1, CTFdException(UserExistsMsg(username)))
        ELSE Return(c1, [args |-> "/users",
                         kwargs |-> [json |-> [banned |-> FALSE,
                                               email |-> username \o "@email.com",
                                               fields |-> <<>>,
                                               hidden |-> FALSE,
                                               name |-> username,
                                               password |-> username,
                                               type |-> IF is_admin THEN "admin" ELSE "user",
                                               verified |-> TRUE]]]))

create_user(c, username, is_admin) ==
    Then(_create_user_request(c, username, is_admin), LAMBDA c1 :
    Then(post(c1, c1.ret.args, c1.ret.kwargs), LAMBDA c2 :
        _create_user_core(c2, c2.ret, username)))

acreate_user(c, username, is_admin) ==
    Then(_create_user_request(c, username, is_admin), LAMBDA c1 :
    Then(apost(c1, c1.ret.args, c1.ret.kwargs), LAMBDA c2 :
        _create_user_core(c2, c2.ret, username)))

-----------------------------------------------------------------------------
(* CtfdApi: teams *)

_create_team_core(c, response, name) ==
    update_storage_field_from_response(c, response, "teams", name)

TeamExistsMsg(name) == "Team " \o name \o " already registered in CTFd"

_create_team_request(c, name) ==
    Bind(exist_in_field(c, "teams", name), LAMBDA c1 :
        IF c1.ret
        THEN Raise(c1, CTFdException(TeamExistsMsg(name)))
        ELSE Return(c1, [args |-> "/teams",
                         kwargs |-> [json |-> [banned |-> FALSE,
                                               country |-> "CZ",
                                               email |-> name \o "@copas.cz",
                                               fields |-> <<>>,
                                               hidden |-> FALSE,
                                               name |-> name,
                                               password |-> name]]]))

create_team(c, name) ==
    Then(_create_team_request(c, name), LAMBDA c1 :
    Then(post(c1, c1.ret.args, c1.ret.kwargs), LAMBDA c2 :
        _create_team_core(c2, c2.ret, name)))

acreate_team(c, name) ==
    Then(_create_team_request(c, name), LAMBDA c1 :
    Then(apost(c1, c1.ret.args, c1.ret.kwargs), LAMBDA c2 :
        _create_team_core(c2, c2.ret, name)))

-----------------------------------------------------------------------------
(* CtfdApi: team membership *)

NoRequest == [args |-> "None", kwargs |-> <<>>]

_remove_user_from_team_request(c, user_name) ==
    Then(get_field_from_storage(c, "users", user_name), LAMBDA c1 :
    Bind(c1.ret, LAMBDA user :
        IF user.team_id = None
        THEN Return(c1, NoRequest)
        ELSE Return(c1, [args |-> "teams/" \o ToString(user.team_id) \o "/members",
                         kwargs |-> [json |-> [user_id |-> user.id]]])))

\* storage['users'][user_name]['team_id'] = team_id
\* mutant: the assignment is written into the user's id field
SetTeamId_IntoId(storage, user_name, team_id) ==
    [storage EXCEPT !.users = SetItem(@, user_name,
                                      [GetItem(@, user_name) EXCEPT !.id = team_id])]

SetTeamId(storage, user_name, team_id) ==
    [storage EXCEPT !.users = SetItem(@, user_name,
                                      [GetItem(@, user_name) EXCEPT !.team_id = team_id])]

\* mutant: team_id is reset in the loaded document, which is never saved
_remove_user_from_team_core_NoSave(c, user_name) == get_storage(c)

_remove_user_from_team_core(c, user_name) ==
    Bind(get_storage(c), LAMBDA c1 :
        save_storage(c1, SetTeamId(c1.ret, user_name, None)))

remove_user_from_team(c, user_name) ==
    Then(_remove_user_from_team_request(c, user_name), LAMBDA c1 :
        IF c1.ret = NoRequest THEN c1
        ELSE Then(delete(c1, c1.ret.args, c1.ret.kwargs), LAMBDA c2 :
                _remove_user_from_team_core(c2, user_name)))

aremove_user_from_team(c, user_name) ==
    Then(_remove_user_from_team_request(c, user_name), LAMBDA c1 :
        IF c1.ret = NoRequest THEN c1
        ELSE Then(adelete(c1, c1.ret.args, c1.ret.kwargs), LAMBDA c2 :
                _remove_user_from_team_core(c2, user_name)))

\* mutant: no early return when the user is already in the team
assign_user2team_NoShortcut(c, user_name, team_name) ==
    Then(get_field_from_storage(c, "users", user_name), LAMBDA c1 :
    Then(get_field_from_storage(c1, "teams", team_name), LAMBDA c2 :
    Bind(c1.ret, LAMBDA user :
    Bind(c2.ret, LAMBDA team :
        Then(IF user.team_id # None
             THEN remove_user_from_team(c2, user_name) ELSE c2, LAMBDA c3 :
        Then(post(c3, "/teams/" \o ToString(team.id) \o "/members",
                  [json |-> [user_id |-> user.id]]), LAMBDA c4 :
        Bind(get_storage(c4), LAMBDA c5 :
            save_storage(c5, SetTeamId(c5.ret, user_name, team.id)))))))))

\* mutant: the member-addition body carries the team's id as user_id
assign_user2team_WrongBody(c, user_name, team_name) ==
    Then(get_field_from_storage(c, "users", user_name), LAMBDA c1 :
    Then(get_field_from_storage(c1, "teams", team_name), LAMBDA c2 :
    Bind(c1.ret, LAMBDA user :
    Bind(c2.ret, LAMBDA team :
        IF user.team_id = team.id THEN c2
        ELSE Then(IF user.team_id # None
                  THEN remove_user_from_team(c2, user_name) ELSE c2, LAMBDA c3 :
             Then(post(c3, "/teams/" \o ToString(team.id) \o "/members",
                       [json |-> [user_id |-> team.id]]), LAMBDA c4 :
             Bind(get_storage(c4), LAMBDA c5 :
                save_storage(c5, SetTeamId(c5.ret, user_name, team.id)))))))))

assign_user2team(c, user_name, team_name) ==
    Then(get_field_from_storage(c, "users", user_name), LAMBDA c1 :
    Then(get_field_from_storage(c1, "teams", team_name), LAMBDA c2 :
    Bind(c1.ret, LAMBDA user :
    Bind(c2.ret, LAMBDA team :
        IF user.team_id = team.id THEN c2
        ELSE Then(IF user.team_id # None
                  THEN remove_user_from_team(c2, user_name) ELSE c2, LAMBDA c3 :
             Then(post(c3, "/teams/" \o ToString(team.id) \o "/members",
                       [json |-> [user_id |-> user.id]]), LAMBDA c4 :
             Bind(get_storage(c4), LAMBDA c5 :
                save_storage(c5, SetTeamId(c5.ret, user_name, team.id)))))))))

aassign_user2team(c, user_name, team_name) ==
    Then(get_field_from_storage(c, "users", user_name), LAMBDA c1 :
    Then(get_field_from_storage(c1, "teams", team_name), LAMBDA c2 :
    Bind(c1.ret, LAMBDA user :
    Bind(c2.ret, LAMBDA team :
        IF user.team_id = team.id THEN c2
        ELSE Then(IF user.team_id # None
                  THEN aremove_user_from_team(c2, user_name) ELSE c2, LAMBDA c3 :
             Then(apost(c3, "/teams/" \o ToString(team.id) \o "/members",
                        [json |-> [user_id |-> user.id]]), LAMBDA c4 :
             Bind(get_storage(c4), LAMBDA c5 :
                save_storage(c5, SetTeamId(c5.ret, user_name, team.id)))))))))

-----------------------------------------------------------------------------
(* CtfdApi: challenges *)

_create_challenge_core(c, response, name) ==
    update_storage_field_from_response(c, response, "challenges", name)

ChallengeExistsMsg(name) == "Challenge " \o name \o " already registered in CTFd"

_create_challenge_request(c, name, value, category, description, state, challenge_type) ==
    Bind(exist_in_field(c, "challenges", name), LAMBDA c1 :
        IF c1.ret
        THEN Raise(c1, CTFdException(ChallengeExistsMsg(name)))
        ELSE Return(c1, [args |-> "/challenges",
                         kwargs |-> [json |-> [category |-> category,
                                               description |-> description,
                                               state |-> state,
                                               name |-> name,
                                               type |-> challenge_type,
                                               value |-> value]]]))

create_challenge(c, name, value, category, description, state, challenge_type) ==
    Then(_create_challenge_request(c, name, value, category, description, state,
                                   challenge_type), LAMBDA c1 :
    Then(post(c1, c1.ret.args, c1.ret.kwargs), LAMBDA c2 :
        _create_challenge_core(c2, c2.ret, name)))

acreate_challenge(c, name, value, category, description, state, challenge_type) ==
    Then(_create_challenge_request(c, name, value, category, description, state,
                                   challenge_type), LAMBDA c1 :
    Then(apost(c1, c1.ret.args, c1.ret.kwargs), LAMBDA c2 :
        _create_challenge_core(c2, c2.ret, name)))

-----------------------------------------------------------------------------
(* CtfdApi: flags *)

_create_flag_core(c, response, flag_name) ==
    update_storage_field_from_response(c, response, "flags", flag_name)

FlagExistsMsg(flag_name) == "Flag " \o flag_name \o " already registered in CTFd"

\* mutant: the duplicate-name check comes before the challenge lookup
_create_flag_request_DuplicateFirst(c, challenge_name, flag_name, flag, data, flag_type) ==
    Bind(exist_in_field(c, "flags", flag_name), LAMBDA c1 :
        IF c1.ret
        THEN Raise(c1, CTFdException(FlagExistsMsg(flag_name)))
        ELSE Then(get_field_from_storage(c1, "challenges", challenge_name), LAMBDA c2 :
             Return(c2, [args |-> "/flags",
                         kwargs |-> [json |-> [challenge_id |-> c2.ret.id,
                                               content |-> flag,
                                               data |-> data,
                                               type |-> flag_type]]])))

_create_flag_request(c, challenge_name, flag_name, flag, data, flag_type) ==
    Then(get_field_from_storage(c, "challenges", challenge_name), LAMBDA c1 :
    Bind(c1.ret.id, LAMBDA challenge_id :
    Bind(exist_in_field(c1, "flags", flag_name), LAMBDA c2 :
        IF c2.ret
        THEN Raise(c2, CTFdException(FlagExistsMsg(flag_name)))
        ELSE Return(c2, [args |-> "/flags",
                         kwargs |-> [json |-> [challenge_id |-> challenge_id,
                                               content |-> flag,
                                               data |-> data,
                                               type |-> flag_type]]]))))

create_flag(c, challenge_name, flag_name, flag, data, flag_type) ==
    Then(_create_flag_request(c, challenge_name, flag_name, flag, data, flag_type),
         LAMBDA c1 :
    Then(post(c1, c1.ret.args, c1.ret.kwargs), LAMBDA c2 :
        _create_flag_core(c2, c2.ret, flag_name)))

acreate_flag(c, challenge_name, flag_name, flag, data, flag_type) ==
    Then(_create_flag_request(c, challenge_name, flag_name, flag, data, flag_type),
         LAMBDA c1 :
    Then(apost(c1, c1.ret.args, c1.ret.kwargs), LAMBDA c2 :
        _create_flag_core(c2, c2.ret, flag_name)))

_update_flag_request(c, name, flag, data, flag_type) ==
    Then(get_field_from_storage(c, "flags", name), LAMBDA c1 :
    Bind(c1.ret.id, LAMBDA flag_id :
        Return(c1, [args |-> "/flags/" \o ToString(flag_id),
                    kwargs |-> [json |-> [content |-> flag,
                                          data |-> data,
                                          type |-> flag_type,
                                          id |-> flag_id]]])))

update_flag(c, name, flag, data, flag_type) ==
    Then(_update_flag_request(c, name, flag, data, flag_type), LAMBDA c1 :
        patch(c1, c1.ret.args, c1.ret.kwargs))

aupdate_flag(c, name, flag, data, flag_type) ==
    Then(_update_flag_request(c, name, flag, data, flag_type), LAMBDA c1 :
        apatch(c1, c1.ret.args, c1.ret.kwargs))

_delete_flag_request(c, name) ==
    Then(get_field_from_storage(c, "flags", name), LAMBDA c1 :
    Bind(c1.ret.id, LAMBDA flag_id :
        Return(c1, [args |-> "/flags/" \o ToString(flag_id), kwargs |-> <<>>])))

_delete_flag_core(c, name) == delete_storage_field(c, "flags", name)

delete_flag(c, name) ==
    Then(_delete_flag_request(c, name), LAMBDA c1 :
    Then(delete(c1, c1.ret.args, c1.ret.kwargs), LAMBDA c2 :
        _delete_flag_core(c2, name)))

adelete_flag(c, name) ==
    Then(_delete_flag_request(c, name), LAMBDA c1 :
    Then(adelete(c1, c1.ret.args, c1.ret.kwargs), LAMBDA c2 :
        _delete_flag_core(c2, name)))

-----------------------------------------------------------------------------
(* CtfdApi: deletion of users, teams and challenges; bulk clear *)

adelete_user(c, name) ==
    Then(get_field_from_storage(c, "users", name), LAMBDA c1 :
    Bind(c1.ret.id, LAMBDA user_id :
    Then(adelete(c1, "/users/" \o ToString(user_id), <<>>), LAMBDA c2 :
        delete_storage_field(c2, "users", name))))

delete_user(c, name) ==
    Then(get_field_from_storage(c, "users", name), LAMBDA c1 :
    Bind(c1.ret.id, LAMBDA user_id :
    Then(delete(c1, "/users/" \o ToString(user_id), <<>>), LAMBDA c2 :
        delete_storage_field(c2, "users", name))))

adelete_team(c, name) ==
    Then(get_field_from_storage(c, "teams", name), LAMBDA c1 :
    Bind(c1.ret.id, LAMBDA team_id :
    Then(adelete(c1, "/teams/" \o ToString(team_id), <<>>), LAMBDA c2 :
        delete_storage_field(c2, "teams", name))))

\* mutant: the cache entry is removed before the remote delete is known to have succeeded
delete_team_Eager(c, name) ==
    Then(get_field_from_storage(c, "teams", name), LAMBDA c1 :
    Bind(c1.ret.id, LAMBDA team_id :
    Then(delete_storage_field(c1, "teams", name), LAMBDA c2 :
        delete(c2, "/teams/" \o ToString(team_id), <<>>))))

delete_team(c, name) ==
    Then(get_field_from_storage(c, "teams", name), LAMBDA c1 :
    Bind(c1.ret.id, LAMBDA team_id :
    Then(delete(c1, "/teams/" \o ToString(team_id), <<>>), LAMBDA c2 :
        delete_storage_field(c2, "teams", name))))

adelete_challenge(c, name) ==
    Then(get_field_from_storage(c, "challenges", name), LAMBDA c1 :
    Bind(c1.ret.id, LAMBDA challenge_id :
    Then(adelete(c1, "/challenges/" \o ToString(challenge_id), <<>>), LAMBDA c2 :
        delete_storage_field(c2, "challenges", name))))

delete_challenge(c, name) ==
    Then(get_field_from_storage(c, "challenges", name), LAMBDA c1 :
    Bind(c1.ret.id, LAMBDA challenge_id :
    Then(delete(c1, "/challenges/" \o ToString(challenge_id), <<>>), LAMBDA c2 :
        delete_storage_field(c2, "challenges", name))))

\* for x in names: Op(x), left as soon as a call raises
ForEach(Op(_, _), c, names) ==
    LET run[i \in 0..Len(names)] ==
            IF i = 0 THEN c ELSE Then(run[i - 1], LAMBDA ci : Op(ci, names[i]))
    IN  run[Len(names)]

aclear(c) ==
    Bind(get_storage(c), LAMBDA c0 :
    Bind(c0.ret, LAMBDA storage :
    Bind(ForEach(adelete_user, c0, KeyList(storage.users)), LAMBDA c1 :
    Bind(ForEach(adelete_team, c1, KeyList(storage.teams)), LAMBDA c2 :
    Bind(ForEach(adelete_flag, c2, KeyList(storage.flags)), LAMBDA c3 :
        ForEach(adelete_challenge, c3, KeyList(storage.challenges)))))))

\* mutant: challenges are deleted before flags
clear_ChallengesFirst(c) ==
    Bind(get_storage(c), LAMBDA c0 :
    Bind(c0.ret, LAMBDA storage :
    Bind(ForEach(delete_user, c0, KeyList(storage.users)), LAMBDA c1 :
    Bind(ForEach(delete_team, c1, KeyList(storage.teams)), LAMBDA c2 :
    Bind(ForEach(delete_challenge, c2, KeyList(storage.challenges)), LAMBDA c3 :
        ForEach(delete_flag, c3, KeyList(storage.flags)))))))

clear(c) ==
    Bind(get_storage(c), LAMBDA c0 :
    Bind(c0.ret, LAMBDA storage :
    Bind(ForEach(delete_user, c0, KeyList(storage.users)), LAMBDA c1 :
    Bind(ForEach(delete_team, c1, KeyList(storage.teams)), LAMBDA c2 :
    Bind(ForEach(delete_flag, c2, KeyList(storage.flags)), LAMBDA c3 :
        ForEach(delete_challenge, c3, KeyList(storage.challenges)))))))

-----------------------------------------------------------------------------
(* The script: a sequence of facade calls (main).  Each action is one      *)
(* facade operation, run to its end in both calling conventions against    *)
(* the same cache file and the same remote responses; the cache file that   *)
(* the script goes on with is the one left by the convention it used.       *)

Ctx(f, resps) == [file |-> f, log |-> <<>>, resps |-> resps, exc |-> NoExc, ret |-> None]

Outcome(c) == [file |-> c.file, log |-> c.log, exc |-> c.exc]

NoOutcome == [file |-> NoFile, log |-> <<>>, exc |-> NoExc]

NoOp == [name |-> "none"]

\* n responses, all alike but for at most one
ResponseSeqs(n) ==
    {[i \in 1..n |-> IF i = k THEN other ELSE base] :
        k \in 0..n, base \in PlainResponses, other \in PlainResponses}

Entries(f) ==
    Len(f.content.users) + Len(f.content.teams) + Len(f.content.flags)
        + Len(f.content.challenges)

Kinds == {"users", "teams", "challenges", "flags"}

Ok(r) == r.response.status_code \in {200, 201}

Url(path) == Host \o "/api/v1" \o path

CreatePath(kind) == "/" \o kind

EntryPath(kind, id) == "/" \o kind \o "/" \o ToString(id)

\* What one logged request does to the remote service's entities: a POST to a kind's
\* collection answered 200/201 with {data: {id}} created <<kind, id>>, a DELETE of
\* /{kind}/{id} answered 200/201 deleted it; any other request leaves them alone.
Effect(rem, r) ==
    IF ~Ok(r) THEN rem
    ELSE IF /\ r.method = "POST"
            /\ \E kind \in Kinds : r.url = Url(CreatePath(kind))
            /\ "data" \in DOMAIN r.response.json
         THEN rem (+) SetToBag({<<CHOOSE kind \in Kinds : r.url = Url(CreatePath(kind)),
                                  r.response.json.data.id>>})
    ELSE IF /\ r.method = "DELETE"
            /\ \E kind \in Kinds, id \in Ids : r.url = Url(EntryPath(kind, id))
         THEN rem (-) SetToBag({CHOOSE e \in Kinds \X Ids :
                                    r.url = Url(EntryPath(e[1], e[2]))})
    ELSE rem

RECURSIVE Track(_, _)
Track(rem, log) ==
    IF log = <<>> THEN rem ELSE Track(Effect(rem, Head(log)), Tail(log))

Call(o, s, a) ==
    /\ pc' = "returned"
    /\ op' = o
    /\ pre' = file
    /\ out' = Outcome(s)
    /\ aout' = Outcome(a)
    /\ \E used \in {s, a} :
          /\ file' = used.file
          /\ remote' = Track(remote, used.log)
    /\ UNCHANGED procvars

CreateUser ==
    \E username \in UserNames, is_admin \in BOOLEAN, r \in Responses :
        /\ pc = "idle"
        /\ Call([name |-> "create_user", username |-> username, is_admin |-> is_admin],
             create_user(Ctx(file, <<r>>), username, is_admin),
             acreate_user(Ctx(file, <<r>>), username, is_admin))

CreateTeam ==
    \E name \in TeamNames, r \in Responses :
        /\ pc = "idle"
        /\ Call([name |-> "create_team", team |-> name],
             create_team(Ctx(file, <<r>>), name),
             acreate_team(Ctx(file, <<r>>), name))

CreateChallenge ==
    \E name \in ChallengeNames, r \in Responses :
        /\ pc = "idle"
        /\ Call([name |-> "create_challenge", challenge |-> name],
             create_challenge(Ctx(file, <<r>>), name, 5, "", "", "visible", "standard"),
             acreate_challenge(Ctx(file, <<r>>), name, 5, "", "", "visible", "standard"))

CreateFlag ==
    \E challenge_name \in ChallengeNames, flag_name \in FlagNames, r \in Responses :
        /\ pc = "idle"
        /\ Call([name |-> "create_flag", challenge |-> challenge_name, flag |-> flag_name],
             create_flag(Ctx(file, <<r>>), challenge_name, flag_name, "flag{x}",
                         "case_insensitive", "static"),
             acreate_flag(Ctx(file, <<r>>), challenge_name, flag_name, "flag{x}",
                          "case_insensitive", "static"))

UpdateFlag ==
    \E name \in FlagNames, r \in PlainResponses :
        /\ pc = "idle"
        /\ Call([name |-> "update_flag", flag |-> name],
             update_flag(Ctx(file, <<r>>), name, "new_flag", "case_insensitive", "static"),
             aupdate_flag(Ctx(file, <<r>>), name, "new_flag", "case_insensitive", "static"))

RemoveUserFromTeam ==
    \E user_name \in UserNames, r \in PlainResponses :
        /\ pc = "idle"
        /\ Call([name |-> "remove_user_from_team", username |-> user_name],
             remove_user_from_team(Ctx(file, <<r>>), user_name),
             aremove_user_from_team(Ctx(file, <<r>>), user_name))

AssignUser2Team ==
    \E user_name \in UserNames, team_name \in TeamNames,
       r1 \in PlainResponses, r2 \in PlainResponses :
        /\ pc = "idle"
        /\ Call([name |-> "assign_user2team", username |-> user_name, team |-> team_name],
             assign_user2team(Ctx(file, <<r1, r2>>), user_name, team_name),
             aassign_user2team(Ctx(file, <<r1, r2>>), user_name, team_name))

DeleteUser ==
    \E name \in UserNames, r \in PlainResponses :
        /\ pc = "idle"
        /\ Call([name |-> "delete_user", username |-> name],
             delete_user(Ctx(file, <<r>>), name),
             adelete_user(Ctx(file, <<r>>), name))

DeleteTeam ==
    \E name \in TeamNames, r \in PlainResponses :
        /\ pc = "idle"
        /\ Call([name |-> "delete_team", team |-> name],
             delete_team(Ctx(file, <<r>>), name),
             adelete_team(Ctx(file, <<r>>), name))

DeleteChallenge ==
    \E name \in ChallengeNames, r \in PlainResponses :
        /\ pc = "idle"
        /\ Call([name |-> "delete_challenge", challenge |-> name],
             delete_challenge(Ctx(file, <<r>>), name),
             adelete_challenge(Ctx(file, <<r>>), name))

DeleteFlag ==
    \E name \in FlagNames, r \in PlainResponses :
        /\ pc = "idle"
        /\ Call([name |-> "delete_flag", flag |-> name],
             delete_flag(Ctx(file, <<r>>), name),
             adelete_flag(Ctx(file, <<r>>), name))

Clear ==
    \E rs \in ResponseSeqs(Entries(file)) :
        /\ pc = "idle"
        /\ Call([name |-> "clear"], clear(Ctx(file, rs)), aclear(Ctx(file, rs)))

\* the call has returned (or raised) to the script, which goes on to its next call
GetStorage ==
    /\ pc = "idle"
    /\ Call([name |-> "get_storage", ret |-> get_storage(Ctx(file, <<>>)).ret],
            get_storage(Ctx(file, <<>>)),
            get_storage(Ctx(file, <<>>)))

NextCall ==
    /\ pc = "returned"
    /\ pc' = "idle"
    /\ op' = NoOp
    /\ pre' = file
    /\ out' = NoOutcome
    /\ aout' = NoOutcome
    /\ UNCHANGED <<file, remote>>
    /\ UNCHANGED procvars

Procs == {"p1", "p2"}

NoDisk == [exists |-> FALSE, text |-> ""]

NoCall == [fn |-> "none"]

NotStarted ==
    [pc |-> "idle", call |-> NoCall, storage |-> EmptyDoc, exc |-> NoExc, read |-> <<>>,
     n |-> 0]

NoSave == [proc |-> "none", text |-> ""]

Init ==
    /\ file = NoFile
    /\ pc = "idle"
    /\ op = NoOp
    /\ pre = NoFile
    /\ out = NoOutcome
    /\ aout = NoOutcome
    /\ remote = EmptyBag
    /\ disk = NoDisk
    /\ procs = [p \in Procs |-> NotStarted]
    /\ last = NoSave

Next ==
    \/ CreateUser
    \/ CreateTeam
    \/ CreateChallenge
    \/ CreateFlag
    \/ UpdateFlag
    \/ RemoveUserFromTeam
    \/ AssignUser2Team
    \/ DeleteUser
    \/ DeleteTeam
    \/ DeleteChallenge
    \/ DeleteFlag
    \/ Clear
    \/ GetStorage
    \/ NextCall

Spec == Init /\ [][Next]_vars

-----------------------------------------------------------------------------
(* Storage, statement by statement: processes that share one cache file.   *)
(* Each process runs Storage calls that load, change and save the document  *)
(* (update_storage_field_from_response, delete_storage_field).  open(path,  *)
(* 'w') empties the file; json.dump's output reaches it when the file       *)
(* object is closed (the documents here are smaller than its buffer), as    *)
(* one write at the offset of that handle, which is 0.                      *)

MaxCycles == 2

JSONDecodeError == [type |-> "JSONDecodeError", msg |-> ""]

\* json.dump: the text written for a document
DumpRec(rec) ==
    "{\"id\": " \o ToString(rec.id) \o
        (IF "team_id" \in DOMAIN rec
         THEN ", \"team_id\": " \o
                  (IF rec.team_id = None THEN "null" ELSE ToString(rec.team_id))
         ELSE "") \o "}"

RECURSIVE DumpItems(_)
DumpItems(d) ==
    IF d = <<>> THEN ""
    ELSE "\"" \o Head(d).name \o "\": " \o DumpRec(Head(d).rec) \o
             (IF Len(d) > 1 THEN ", " \o DumpItems(Tail(d)) ELSE "")

DumpDict(d) == "{" \o DumpItems(d) \o "}"

Dumps(storage) ==
    "{\"users\": " \o DumpDict(storage.users) \o
        ", \"teams\": " \o DumpDict(storage.teams) \o
        ", \"challenges\": " \o DumpDict(storage.challenges) \o
        ", \"flags\": " \o DumpDict(storage.flags) \o "}"

\* the Storage calls a process makes: on the teams collection, any name, any id
StorageCalls ==
    {[fn |-> "update_storage_field_from_response", field |-> "teams", name |-> n, id |-> i] :
        n \in TeamNames, i \in Ids}
    \cup {[fn |-> "delete_storage_field", field |-> "teams", name |-> n, id |-> None] :
        n \in TeamNames}

\* the documents those calls can build
TeamDicts ==
    {d \in UNION {[1..k -> {[name |-> n, rec |-> [id |-> i]] : n \in TeamNames, i \in Ids}] :
                     k \in 0..Cardinality(TeamNames)} :
        \A i, j \in DOMAIN d : d[i].name = d[j].name => i = j}

Documents == {[EmptyDoc EXCEPT !.teams = d] : d \in TeamDicts}

\* json.load: the document whose text this is, or JSONDecodeError for a text that is no
\* whole document (empty, or a document followed by the rest of a longer one)
Loads(text) ==
    IF \E d \in Documents : Dumps(d) = text
    THEN [exc |-> NoExc, ret |-> CHOOSE d \in Documents : Dumps(d) = text]
    ELSE [exc |-> JSONDecodeError, ret |-> None]

\* a write of text at offset 0 of a file that holds old
WriteAt0(old, text) == text \o SubSeq(old, Len(text) + 1, Len(old))

Step(p, pc1) == procs' = [procs EXCEPT ![p].pc = pc1]

\* a process starts a Storage call
ProcBegin ==
    \E p \in Procs, call \in StorageCalls :
        /\ procs[p].pc = "idle"
        /\ procs[p].n < MaxCycles
        /\ procs' = [procs EXCEPT ![p].pc = "get_storage", ![p].call = call]
        /\ UNCHANGED <<disk, last>>
        /\ UNCHANGED scriptvars

\* get_storage: if not self.storage_path.exists()
ProcExists ==
    \E p \in Procs :
        /\ procs[p].pc = "get_storage"
        /\ Step(p, IF disk.exists THEN "load" ELSE "create_open")
        /\ UNCHANGED <<disk, last>>
        /\ UNCHANGED scriptvars

\* get_storage: open(self.storage_path, 'w')
ProcCreateOpen ==
    \E p \in Procs :
        /\ procs[p].pc = "create_open"
        /\ disk' = [exists |-> TRUE, text |-> ""]
        /\ Step(p, "create_dump")
        /\ UNCHANGED last
        /\ UNCHANGED scriptvars

\* get_storage: json.dump of the four empty collections, and the close
ProcCreateDump ==
    \E p \in Procs :
        /\ procs[p].pc = "create_dump"
        /\ disk' = [disk EXCEPT !.text = WriteAt0(@, Dumps(EmptyDoc))]
        /\ Step(p, "load")
        /\ UNCHANGED last
        /\ UNCHANGED scriptvars

\* get_storage: json.load, then the change of the loaded document
ProcLoad ==
    \E p \in Procs :
        /\ procs[p].pc = "load"
        /\ LET r == Loads(disk.text)
               call == procs[p].call
           IN  procs' = [procs EXCEPT ![p] =
                   IF r.exc # NoExc
                   THEN [@ EXCEPT !.pc = "raised", !.exc = r.exc, !.read = <<disk.text>>]
                   ELSE IF call.fn = "delete_storage_field"
                           /\ call.name \notin Keys(r.ret[call.field])
                   THEN [@ EXCEPT !.pc = "raised", !.exc = KeyError(call.name),
                                  !.read = <<disk.text>>]
                   ELSE [@ EXCEPT !.pc = "save_open", !.read = <<disk.text>>,
                                  !.storage =
                                      IF call.fn = "delete_storage_field"
                                      THEN [r.ret EXCEPT ![call.field] = DelItem(@, call.name)]
                                      ELSE [r.ret EXCEPT ![call.field] =
                                               SetItem(@, call.name, [id |-> call.id])]]]
        /\ UNCHANGED <<disk, last>>
        /\ UNCHANGED scriptvars

\* save_storage: open(self.storage_path, 'w')
ProcSaveOpen ==
    \E p \in Procs :
        /\ procs[p].pc = "save_open"
        /\ disk' = [exists |-> TRUE, text |-> ""]
        /\ Step(p, "save_dump")
        /\ UNCHANGED last
        /\ UNCHANGED scriptvars

\* save_storage: json.dump(storage, f), and the close
ProcSaveDump ==
    \E p \in Procs :
        /\ procs[p].pc = "save_dump"
        /\ disk' = [disk EXCEPT !.text = WriteAt0(@, Dumps(procs[p].storage))]
        /\ last' = [proc |-> p, text |-> Dumps(procs[p].storage)]
        /\ procs' = [procs EXCEPT ![p].pc = "idle", ![p].n = @ + 1]
        /\ UNCHANGED scriptvars

\* the process is killed between an open for writing and its close
ProcCrash ==
    \E p \in Procs :
        /\ procs[p].pc \in {"create_dump", "save_dump"}
        /\ Step(p, "crashed")
        /\ UNCHANGED <<disk, last>>
        /\ UNCHANGED scriptvars

NextProc ==
    \/ ProcBegin
    \/ ProcExists
    \/ ProcCreateOpen
    \/ ProcCreateDump
    \/ ProcLoad
    \/ ProcSaveOpen
    \/ ProcSaveDump
    \/ ProcCrash

SpecProc == Init /\ [][NextProc]_vars

-----------------------------------------------------------------------------
(* Vocabulary of the properties *)

\* the cache document a load() of file f returns (four empty collections when absent)
Doc(f) == f.content

Outs == {out, aout}

Funcs == {"post", "patch", "delete", "apost", "apatch", "adelete"}

\* o ended with the dispatcher's error for its last request
RemoteError(o) ==
    /\ o.log # <<>>
    /\ \E f \in Funcs :
          o.exc = CTFdException(BadResponseMsg(f, o.log[Len(o.log)].url,
                                               o.log[Len(o.log)].response))

NotFound(o, field, name) == o.exc = CTFdException(NotFoundMsg(field, name))

MembersPath(team_id) == "/teams/" \o ToString(team_id) \o "/members"

Has(f, kind, name) == name \in Keys(Doc(f)[kind])

Rec(f, kind, name) == GetItem(Doc(f)[kind], name)

\* the create call op and the name it creates in collection kind
Creates(kind, name) ==
    \/ kind = "users" /\ op.name = "create_user" /\ op.username = name
    \/ kind = "teams" /\ op.name = "create_team" /\ op.team = name
    \/ kind = "challenges" /\ op.name = "create_challenge" /\ op.challenge = name
    \/ kind = "flags" /\ op.name = "create_flag" /\ op.flag = name

DuplicateMsg(kind, name) ==
    CASE kind = "users" -> UserExistsMsg(name)
      [] kind = "teams" -> TeamExistsMsg(name)
      [] kind = "challenges" -> ChallengeExistsMsg(name)
      [] kind = "flags" -> FlagExistsMsg(name)

NamesOf(kind) ==
    CASE kind = "users" -> UserNames
      [] kind = "teams" -> TeamNames
      [] kind = "challenges" -> ChallengeNames
      [] kind = "flags" -> FlagNames

-----------------------------------------------------------------------------
(* C1 *)

\* C1 as stated: whenever a remote call of a facade operation is answered with status
\* 500, the operation raises the remote-call error and the cache document after the
\* operation is identical to the cache document before it.
C1_Original ==
    pc = "returned" =>
        \A o \in Outs :
            (\E i \in DOMAIN o.log : o.log[i].response.status_code = 500) =>
                /\ RemoteError(o)
                /\ Doc(o.file) = Doc(pre)

\* C1 amended: a remote call answered with status 500 is the operation's last call, the
\* operation raises the remote-call error, and the cache document after the operation is
\* the document as it stood when that call was sent; it is the document of before the
\* operation when the failing call is the operation's first remote call.
C1_Amended ==
    pc = "returned" =>
        \A o \in Outs :
            \A i \in DOMAIN o.log :
                o.log[i].response.status_code = 500 =>
                    /\ i = Len(o.log)
                    /\ RemoteError(o)
                    /\ Doc(o.file) = Doc(o.log[i].cache)
                    /\ i = 1 => Doc(o.file) = Doc(pre)

C1_Witness ==
    /\ pc = "returned"
    /\ op.name = "assign_user2team"
    /\ Len(out.log) = 2
    /\ out.log[2].response.status_code = 500
    /\ RemoteError(out)
    /\ Doc(out.file) # Doc(pre)

-----------------------------------------------------------------------------
(* C2 *)

\* C2 as stated: for every kind and every name already in that kind's collection,
\* create(name) fails with the duplicate-name error, issues no network call and leaves
\* the cache unchanged.
C2_Original ==
    pc = "returned" =>
        \A kind \in Kinds : \A name \in NamesOf(kind) :
            (Creates(kind, name) /\ Has(pre, kind, name)) =>
                \A o \in Outs :
                    /\ o.exc = CTFdException(DuplicateMsg(kind, name))
                    /\ o.log = <<>>
                    /\ o.file = pre

\* C2 amended: as stated for users, teams and challenges, and for flags when the
\* challenge name is cached; create_flag of a cached flag name under a challenge name
\* that is not cached fails with the not-found error for the challenge instead, also
\* with no network call and the cache unchanged.
C2_Amended ==
    pc = "returned" =>
        \A kind \in Kinds : \A name \in NamesOf(kind) :
            (Creates(kind, name) /\ Has(pre, kind, name)) =>
                \A o \in Outs :
                    /\ IF kind = "flags" /\ ~Has(pre, "challenges", op.challenge)
                       THEN NotFound(o, "challenges", op.challenge)
                       ELSE o.exc = CTFdException(DuplicateMsg(kind, name))
                    /\ o.log = <<>>
                    /\ o.file = pre

C2_Witness ==
    /\ pc = "returned"
    /\ op.name = "create_flag"
    /\ Has(pre, "flags", op.flag)
    /\ Has(pre, "challenges", op.challenge)
    /\ out.exc = CTFdException(FlagExistsMsg(op.flag))
    /\ out.log = <<>>

-----------------------------------------------------------------------------
(* C3 *)

\* the collection and the name that op requires to be cached, in the order it looks
\* them up
Requires ==
    CASE op.name = "update_flag" -> <<<<"flags", op.flag>>>>
      [] op.name = "delete_flag" -> <<<<"flags", op.flag>>>>
      [] op.name = "delete_user" -> <<<<"users", op.username>>>>
      [] op.name = "delete_team" -> <<<<"teams", op.team>>>>
      [] op.name = "delete_challenge" -> <<<<"challenges", op.challenge>>>>
      [] op.name = "remove_user_from_team" -> <<<<"users", op.username>>>>
      [] op.name = "assign_user2team" -> <<<<"users", op.username>>, <<"teams", op.team>>>>
      [] OTHER -> <<>>

Missing == {i \in DOMAIN Requires : ~Has(pre, Requires[i][1], Requires[i][2])}

FirstMissing == CHOOSE i \in Missing : \A j \in Missing : i <= j

\* C3: update_flag, delete_user, delete_team, delete_challenge, delete_flag,
\* remove_user_from_team on a name absent from its collection, and assign_user2team when
\* the user name or the team name is absent, fail with the not-found error, issue no
\* network call and leave the cache collections unchanged.
C3_NotFound ==
    (pc = "returned" /\ Missing # {}) =>
        \A o \in Outs :
            /\ NotFound(o, Requires[FirstMissing][1], Requires[FirstMissing][2])
            /\ o.log = <<>>
            /\ Doc(o.file) = Doc(pre)

C3_Witness ==
    /\ pc = "returned"
    /\ op.name = "assign_user2team"
    /\ Has(pre, "users", op.username)
    /\ ~Has(pre, "teams", op.team)
    /\ NotFound(out, "teams", op.team)

-----------------------------------------------------------------------------
(* C4 *)

\* the record create stores for identifier v
Created(kind, v) == IF kind = "users" THEN [id |-> v, team_id |-> None] ELSE [id |-> v]

\* o made one call, which succeeded with a body {data: {id: v}}
CreatedRemotely(o, v) ==
    /\ Len(o.log) = 1
    /\ Ok(o.log[1])
    /\ "data" \in DOMAIN o.log[1].response.json
    /\ o.log[1].response.json.data.id = v

\* C4: a create of a name not in its collection whose remote call succeeds with body
\* {data: {id: v}} leaves the name cached with id v (for users with exactly
\* {id: v, team_id: null}) and every other cache entry unchanged.
C4_RoundTrip ==
    pc = "returned" =>
        \A kind \in Kinds : \A name \in NamesOf(kind) : \A v \in Ids : \A o \in Outs :
            (Creates(kind, name) /\ ~Has(pre, kind, name) /\ CreatedRemotely(o, v)) =>
                /\ Has(o.file, kind, name)
                /\ Rec(o.file, kind, name) = Created(kind, v)
                /\ DelItem(Doc(o.file)[kind], name) = Doc(pre)[kind]
                /\ \A other \in Kinds \ {kind} : Doc(o.file)[other] = Doc(pre)[other]

C4_Witness ==
    /\ pc = "returned"
    /\ op.name = "create_user"
    /\ Doc(pre).teams # <<>>
    /\ CreatedRemotely(out, 2)
    /\ Rec(out.file, "users", op.username) = [id |-> 2, team_id |-> None]

-----------------------------------------------------------------------------
(* C5 *)

\* op moves a cached user from its team (id a) to a cached team with another id b, and
\* every remote call of o succeeded
Reassigned(o, a, b) ==
    /\ pc = "returned"
    /\ op.name = "assign_user2team"
    /\ Has(pre, "users", op.username)
    /\ Has(pre, "teams", op.team)
    /\ a = Rec(pre, "users", op.username).team_id
    /\ b = Rec(pre, "teams", op.team).id
    /\ a # None
    /\ a # b
    /\ \A i \in DOMAIN o.log : Ok(o.log[i])

\* C5: for a user cached in team A, assign(user, B) with B's id different from A's and
\* every remote call succeeding issues exactly one member-removal call addressed to team
\* A and then exactly one member-addition call addressed to team B, and the user's cached
\* team_id ends equal to B's id.
C5_Reassign ==
    \A a \in Ids : \A b \in Ids : \A o \in Outs :
        Reassigned(o, a, b) =>
            /\ Len(o.log) = 2
            /\ o.log[1].method = "DELETE"
            /\ o.log[1].url = Url(MembersPath(a))
            /\ o.log[2].method = "POST"
            /\ o.log[2].url = Url(MembersPath(b))
            /\ Rec(o.file, "users", op.username).team_id = b

\* what the code does there: the two calls, in that order, and the final team_id; the
\* removal call's URL has no separator between the API prefix and the path
C5_Observed ==
    \A a \in Ids : \A b \in Ids : \A o \in Outs :
        Reassigned(o, a, b) =>
            /\ Len(o.log) = 2
            /\ o.log[1].method = "DELETE"
            /\ o.log[1].url = Host \o "/api/v1" \o "teams/" \o ToString(a) \o "/members"
            /\ o.log[1].kwargs.json = [user_id |-> Rec(pre, "users", op.username).id]
            /\ o.log[2].method = "POST"
            /\ o.log[2].url = Url(MembersPath(b))
            /\ o.log[2].kwargs.json = [user_id |-> Rec(pre, "users", op.username).id]
            /\ Rec(o.file, "users", op.username).team_id = b

-----------------------------------------------------------------------------
(* C6 *)

AlreadyAssigned ==
    /\ pc = "returned"
    /\ op.name = "assign_user2team"
    /\ Has(pre, "users", op.username)
    /\ Has(pre, "teams", op.team)
    /\ Rec(pre, "users", op.username).team_id = Rec(pre, "teams", op.team).id

\* C6: assign(user, team) when the user's cached team_id already equals the team's
\* cached id returns without error, makes no network call and leaves the cache
\* unchanged.
C6_Idempotent ==
    AlreadyAssigned =>
        \A o \in Outs :
            /\ o.exc = NoExc
            /\ o.log = <<>>
            /\ o.file = pre

C6_Witness ==
    /\ AlreadyAssigned
    /\ Rec(file, "users", op.username).team_id = Rec(pre, "teams", op.team).id
    /\ out.log = <<>>

-----------------------------------------------------------------------------
(* C7 *)

Added(o, kind) == Keys(Doc(o.file)[kind]) \ Keys(Doc(pre)[kind])

Removed(o, kind) == Keys(Doc(pre)[kind]) \ Keys(Doc(o.file)[kind])

\* C7: a name enters a cache collection only in a create of that name whose remote
\* create call succeeded, a name leaves a collection only when a remote delete call for
\* its id succeeded in the same operation, and a create or delete whose remote call
\* failed leaves the cached names as they were.
C7_OnlyAfterSuccess ==
    pc = "returned" =>
        \A o \in Outs : \A kind \in Kinds :
            /\ \A name \in Added(o, kind) :
                  /\ Creates(kind, name)
                  /\ \E i \in DOMAIN o.log :
                        /\ o.log[i].method = "POST"
                        /\ o.log[i].url = Url(CreatePath(kind))
                        /\ kind # "flags" => o.log[i].kwargs.json.name = name
                        /\ Ok(o.log[i])
            /\ \A name \in Removed(o, kind) :
                  \E i \in DOMAIN o.log :
                      /\ o.log[i].method = "DELETE"
                      /\ o.log[i].url = Url(EntryPath(kind, Rec(pre, kind, name).id))
                      /\ Ok(o.log[i])
            /\ (o.log # <<>> /\ ~Ok(o.log[Len(o.log)]) /\ op.name # "clear") =>
                  Added(o, kind) = {} /\ Removed(o, kind) = {}

C7_Witness ==
    /\ pc = "returned"
    /\ op.name = "clear"
    /\ Len(out.log) = 2
    /\ Ok(out.log[1])
    /\ ~Ok(out.log[2])
    /\ Cardinality(Removed(out, "teams")) = 1
    /\ Cardinality(Keys(Doc(out.file).teams)) = 1

-----------------------------------------------------------------------------
(* C8 *)

TeamId(f, name) == Rec(f, "users", name).team_id

MemberRemoval(r) ==
    /\ r.method = "DELETE"
    /\ "json" \in DOMAIN r.kwargs
    /\ Ok(r)

\* the cache file as it stands after the i-th call of o and what the operation did on
\* its response: at the next call, or at the end of the operation
After(o, i) == IF i < Len(o.log) THEN o.log[i + 1].cache ELSE o.file

\* C8: a user record is created with team_id null; team_id becomes non-null only in an
\* assign_user2team whose member-addition call succeeded, and then it is that team's
\* id; after every successful member-removal call team_id is null.
C8_TeamId ==
    pc = "returned" =>
        \A o \in Outs : \A name \in UserNames :
            /\ (~Has(pre, "users", name) /\ Has(o.file, "users", name)) =>
                  TeamId(o.file, name) = None
            /\ (/\ Has(pre, "users", name)
                /\ Has(o.file, "users", name)
                /\ TeamId(o.file, name) # None
                /\ TeamId(o.file, name) # TeamId(pre, name)) =>
                  /\ op.name = "assign_user2team"
                  /\ op.username = name
                  /\ TeamId(o.file, name) = Rec(pre, "teams", op.team).id
                  /\ o.log[Len(o.log)].method = "POST"
                  /\ o.log[Len(o.log)].url = Url(MembersPath(TeamId(o.file, name)))
                  /\ Ok(o.log[Len(o.log)])
            /\ \A i \in DOMAIN o.log :
                  (MemberRemoval(o.log[i]) /\ op.username = name) =>
                      TeamId(After(o, i), name) = None

C8_Witness ==
    /\ pc = "returned"
    /\ op.name = "remove_user_from_team"
    /\ Has(pre, "users", op.username)
    /\ TeamId(pre, op.username) # None
    /\ Len(out.log) = 1
    /\ MemberRemoval(out.log[1])
    /\ TeamId(file, op.username) = None

-----------------------------------------------------------------------------
(* C9 *)

Endpoints ==
    {<<"POST", "/users">>, <<"POST", "/teams">>, <<"POST", "/challenges">>,
     <<"POST", "/flags">>}
    \cup {<<"POST", MembersPath(i)>> : i \in Ids}
    \cup {<<"DELETE", MembersPath(i)>> : i \in Ids}
    \cup {<<"PATCH", EntryPath("flags", i)>> : i \in Ids}
    \cup {<<"DELETE", EntryPath(kind, i)>> : kind \in Kinds, i \in Ids}

\* C9: every request of a facade operation goes to <host>/api/v1<path> with (method,
\* path) one of the listed endpoints; the member-removal call goes to
\* <host>/api/v1/teams/{old team id}/members.
C9_Endpoints ==
    pc = "returned" =>
        \A o \in Outs : \A i \in DOMAIN o.log :
            \E e \in Endpoints :
                /\ o.log[i].method = e[1]
                /\ o.log[i].url = Url(e[2])

-----------------------------------------------------------------------------
(* C10 *)

Requests(o) ==
    [i \in DOMAIN o.log |->
        [method |-> o.log[i].method, url |-> o.log[i].url, kwargs |-> o.log[i].kwargs]]

\* the same failure: the same exception, or the dispatcher's error for the same URL and
\* response body, each naming the dispatcher method of its own calling convention
SameFailure(s, a) ==
    \/ s.exc = a.exc
    \/ /\ s.log # <<>>
       /\ \E f \in {"post", "patch", "delete"} :
             /\ s.exc = CTFdException(BadResponseMsg(f, s.log[Len(s.log)].url,
                                                     s.log[Len(s.log)].response))
             /\ a.exc = CTFdException(BadResponseMsg("a" \o f, s.log[Len(s.log)].url,
                                                     s.log[Len(s.log)].response))

\* C10: run against the same cache document and the same remote responses, a blocking
\* facade operation and its non-blocking counterpart issue the same sequence of requests
\* (method, URL, headers, body), end with the same result or failure and leave the same
\* cache file.
C10_SameBehaviour ==
    pc = "returned" =>
        /\ Requests(out) = Requests(aout)
        /\ SameFailure(out, aout)
        /\ (out.exc = NoExc) = (aout.exc = NoExc)
        /\ out.file = aout.file

C10_Witness ==
    /\ pc = "returned"
    /\ op.name = "assign_user2team"
    /\ Len(out.log) = 2
    /\ Len(aout.log) = 2
    /\ out.exc.type = "CTFdException"
    /\ out.exc # aout.exc
    /\ out.file # pre

-----------------------------------------------------------------------------
(* C11 *)

\* C11: a dispatcher call returns its response when the status code is 200 or 201 and
\* only then; on every other status code it raises CTFdException, and the facade
\* operation that made the call makes no further network call and no cache write.
C11_Classification ==
    pc = "returned" =>
        \A o \in Outs : \A i \in DOMAIN o.log :
            /\ Ok(o.log[i]) => (i < Len(o.log) \/ ~RemoteError(o))
            /\ ~Ok(o.log[i]) =>
                  /\ i = Len(o.log)
                  /\ RemoteError(o)
                  /\ o.file = o.log[i].cache

C11_Witness ==
    /\ pc = "returned"
    /\ op.name = "clear"
    /\ Len(out.log) = 2
    /\ Entries(pre) > 2
    /\ out.log[2].response.status_code = 204
    /\ RemoteError(out)
    /\ RemoteError(aout)

-----------------------------------------------------------------------------
(* C12 *)

DeletesOf(f, kind) ==
    [i \in DOMAIN Doc(f)[kind] |->
        [kind |-> kind, name |-> Doc(f)[kind][i].name,
         url |-> Url(EntryPath(kind, Doc(f)[kind][i].rec.id))]]

\* the remote deletes of a clear() started on cache file f, in order
ExpectedDeletes(f) ==
    DeletesOf(f, "users") \o DeletesOf(f, "teams") \o DeletesOf(f, "flags")
        \o DeletesOf(f, "challenges")

\* the i-th call of o is the i-th expected delete, and when it succeeded its entry, and
\* nothing else, is removed from the cache right after it
DeleteStep(o, exp, i) ==
    /\ o.log[i].method = "DELETE"
    /\ o.log[i].url = exp[i].url
    /\ Ok(o.log[i]) =>
          Doc(After(o, i)) =
              [Doc(o.log[i].cache) EXCEPT ![exp[i].kind] = DelItem(@, exp[i].name)]

\* C12 as stated: clear() issues one remote delete for every entry cached when it
\* starts, users first, then teams, flags, challenges, each entry removed right after
\* its delete succeeded; all collections are empty when every delete succeeded.
C12_Original ==
    (pc = "returned" /\ op.name = "clear") =>
        \A o \in Outs :
            /\ Len(o.log) = Len(ExpectedDeletes(pre))
            /\ \A i \in DOMAIN o.log : DeleteStep(o, ExpectedDeletes(pre), i)
            /\ (\A i \in DOMAIN o.log : Ok(o.log[i])) => Doc(o.file) = EmptyDoc

\* C12 amended: clear() issues the remote deletes of the entries cached when it starts,
\* one per entry, users first, then teams, flags, challenges, up to and including the
\* first delete that fails, where it stops; each entry is removed right after its delete
\* succeeded, and all collections are empty when every delete succeeded.
C12_Amended ==
    (pc = "returned" /\ op.name = "clear") =>
        \A o \in Outs :
            /\ Len(o.log) <= Len(ExpectedDeletes(pre))
            /\ \A i \in DOMAIN o.log :
                  /\ DeleteStep(o, ExpectedDeletes(pre), i)
                  /\ i < Len(o.log) => Ok(o.log[i])
            /\ Len(o.log) < Len(ExpectedDeletes(pre)) =>
                  (o.log # <<>> /\ ~Ok(o.log[Len(o.log)]))
            /\ (\A i \in DOMAIN o.log : Ok(o.log[i])) => Doc(o.file) = EmptyDoc

C12_Witness ==
    /\ pc = "returned"
    /\ op.name = "clear"
    /\ Len(ExpectedDeletes(pre)) = 5
    /\ Len(out.log) = 5
    /\ \A i \in DOMAIN out.log : Ok(out.log[i])
    /\ Doc(file) = EmptyDoc

-----------------------------------------------------------------------------
(* C13 *)

FirstAssign ==
    /\ pc = "returned"
    /\ op.name = "assign_user2team"
    /\ Has(pre, "users", op.username)
    /\ Has(pre, "teams", op.team)
    /\ TeamId(pre, op.username) = None

\* C13: for a cached user with team_id null and a cached team, assign(user, team) issues
\* exactly one network call, a POST to /teams/{team id}/members with body
\* {user_id: user's cached id}, and no removal call; on success the user's cached
\* team_id is the team's cached id and every other cache entry is unchanged.
C13_FirstAssign ==
    FirstAssign =>
        \A o \in Outs :
            /\ Len(o.log) = 1
            /\ o.log[1].method = "POST"
            /\ o.log[1].url = Url(MembersPath(Rec(pre, "teams", op.team).id))
            /\ o.log[1].kwargs.json = [user_id |-> Rec(pre, "users", op.username).id]
            /\ Ok(o.log[1]) =>
                  /\ o.exc = NoExc
                  /\ KeyList(Doc(o.file).users) = KeyList(Doc(pre).users)
                  /\ \A name \in Keys(Doc(pre).users) :
                        Rec(o.file, "users", name) =
                            IF name = op.username
                            THEN [id |-> Rec(pre, "users", name).id,
                                  team_id |-> Rec(pre, "teams", op.team).id]
                            ELSE Rec(pre, "users", name)
                  /\ \A kind \in Kinds \ {"users"} : Doc(o.file)[kind] = Doc(pre)[kind]

C13_Witness ==
    /\ FirstAssign
    /\ Ok(out.log[1])
    /\ Rec(pre, "users", op.username).id # Rec(pre, "teams", op.team).id
    /\ TeamId(file, op.username) = Rec(pre, "teams", op.team).id

-----------------------------------------------------------------------------
(* C16 *)

\* C16: load() returns the persisted document and leaves the file as it is when a file
\* exists; when none exists it first persists a document of exactly four empty
\* collections (users, teams, challenges, flags) and returns that document.
C16_Load ==
    (pc = "returned" /\ op.name = "get_storage") =>
        /\ out.exc = NoExc
        /\ out.log = <<>>
        /\ IF pre.exists
           THEN op.ret = pre.content /\ file = pre
           ELSE /\ file = [exists |-> TRUE, content |-> EmptyDoc]
                /\ op.ret = EmptyDoc
                /\ DOMAIN op.ret = Kinds
                /\ \A kind \in Kinds : op.ret[kind] = <<>>

C16_Witness ==
    /\ pc = "returned"
    /\ op.name = "get_storage"
    /\ pre.exists
    /\ Entries(pre) = 3
    /\ op.ret = pre.content
    /\ file = pre

-----------------------------------------------------------------------------
(* C17 *)

\* the cache files an operation passes through: before it, at each of its calls, after it
Chain(o) == <<pre>> \o [i \in DOMAIN o.log |-> o.log[i].cache] \o <<o.file>>

\* C17: the id of a cache entry never changes while the entry exists: an entry present
\* in two consecutive cache states has the same id in both.
C17_IdStable ==
    pc = "returned" =>
        \A o \in Outs :
            LET chain == Chain(o)
            IN  \A i \in 1..(Len(chain) - 1) :
                    \A kind \in Kinds : \A name \in Keys(Doc(chain[i])[kind]) :
                        Has(chain[i + 1], kind, name) =>
                            Rec(chain[i + 1], kind, name).id = Rec(chain[i], kind, name).id

C17_Witness ==
    /\ pc = "returned"
    /\ op.name = "assign_user2team"
    /\ Has(pre, "users", op.username)
    /\ Has(file, "users", op.username)
    /\ Has(pre, "teams", op.team)
    /\ TeamId(file, op.username) # TeamId(pre, op.username)
    /\ TeamId(file, op.username) # Rec(pre, "users", op.username).id
    /\ Rec(file, "users", op.username).id = Rec(pre, "users", op.username).id

-----------------------------------------------------------------------------
(* C18 *)

\* C18: create_flag(challenge_name, flag_name, ...) sends POST /flags with challenge_id
\* the cached id of challenge_name; when challenge_name is not cached it fails with the
\* not-found error, makes no network call and leaves the cache unchanged, and it does so
\* whether or not flag_name is already cached (the not-found check comes first).
C18_FlagChallenge ==
    (pc = "returned" /\ op.name = "create_flag") =>
        \A o \in Outs :
            IF Has(pre, "challenges", op.challenge)
            THEN \A i \in DOMAIN o.log :
                    /\ i = 1
                    /\ o.log[i].method = "POST"
                    /\ o.log[i].url = Url("/flags")
                    /\ o.log[i].kwargs.json.challenge_id =
                           Rec(pre, "challenges", op.challenge).id
            ELSE /\ NotFound(o, "challenges", op.challenge)
                 /\ o.log = <<>>
                 /\ Doc(o.file) = Doc(pre)

C18_Witness ==
    /\ pc = "returned"
    /\ op.name = "create_flag"
    /\ ~Has(pre, "challenges", op.challenge)
    /\ Has(pre, "flags", op.flag)
    /\ NotFound(out, "challenges", op.challenge)
    /\ NotFound(aout, "challenges", op.challenge)

C18_Sent ==
    /\ pc = "returned"
    /\ op.name = "create_flag"
    /\ Has(pre, "challenges", op.challenge)
    /\ Len(out.log) = 1
    /\ Has(file, "flags", op.flag)

-----------------------------------------------------------------------------
(* C19 *)

\* C19: the team_id of every cached user is null or the id of a team that is in the
\* teams collection.
C19_TeamIdRefersToTeam ==
    \A name \in Keys(Doc(file).users) :
        \/ TeamId(file, name) = None
        \/ \E team \in Keys(Doc(file).teams) :
              Rec(file, "teams", team).id = TeamId(file, name)

\* what the code does: the dangling team_id is the id of the team just deleted
C19_Observed ==
    (pc = "returned" /\ ~C19_TeamIdRefersToTeam) =>
        \E name \in Keys(Doc(file).users) :
            /\ Has(pre, "users", name)
            /\ TeamId(pre, name) = TeamId(file, name)
            /\ \/ ~(\E team \in Keys(Doc(pre).teams) :
                       Rec(pre, "teams", team).id = TeamId(pre, name))
               \/ /\ op.name = "delete_team"
                  /\ Has(pre, "teams", op.team)
                  /\ Rec(pre, "teams", op.team).id = TeamId(pre, name)
                  /\ ~Has(file, "teams", op.team)

-----------------------------------------------------------------------------
(* C20 *)

CachePairs(f) ==
    UNION {{<<kind, Rec(f, kind, name).id>> : name \in Keys(Doc(f)[kind])} : kind \in Kinds}

NamesWith(f, e) == {name \in Keys(Doc(f)[e[1]]) : Rec(f, e[1], name).id = e[2]}

\* C20: the set of (kind, id) pairs in the cache is the set of entities created on the
\* remote service through the facade and not yet deleted there through it, after any
\* sequence of facade calls whose remote calls succeed or fail in any way, a clear()
\* stopped by a failed delete included; entity by entity, the cache holds as many names
\* with a pair as there are remote entities with it.
C20_CacheIsRemote ==
    /\ CachePairs(file) = BagToSet(remote)
    /\ \A e \in BagToSet(remote) : CopiesIn(e, remote) = Cardinality(NamesWith(file, e))

C20_Witness ==
    /\ pc = "returned"
    /\ op.name = "clear"
    /\ Len(out.log) = 3
    /\ ~Ok(out.log[3])
    /\ Entries(pre) = 4
    /\ Entries(file) = 2
    /\ Cardinality(BagToSet(remote)) = 2
    /\ CachePairs(file) = BagToSet(remote)

-----------------------------------------------------------------------------
(* C14 *)

WholeTexts == {Dumps(d) : d \in Documents}

\* C14: save(document) replaces the persisted cache atomically: whatever a process reads
\* from the cache file, also after another process was killed during its save, is a
\* whole document, never an empty or partly overwritten file.
C14_AtomicSave ==
    \A p \in Procs : \A i \in DOMAIN procs[p].read : procs[p].read[i] \in WholeTexts

-----------------------------------------------------------------------------
(* C15 *)

Quiet == \A p \in Procs : procs[p].pc = "idle" /\ procs[p].n > 0

\* C15: when processes interleave load-change-save cycles on one cache file, the last
\* full write wins: once they are done the file is exactly the document of the save
\* that finished last.
C15_LastWriteWins == Quiet => disk.text = last.text

\* what the code does: the document saved last is at the start of the file, followed by
\* what an earlier, longer write left behind when the two saves overlapped
C15_Observed ==
    Quiet => SubSeq(disk.text, 1, Len(last.text)) = last.text

\* a lost update: both processes saved a different team, the file holds one of them
C15_LostUpdate ==
    /\ Quiet
    /\ disk.text \in WholeTexts
    /\ \A p \in Procs : procs[p].n = 1 /\ procs[p].call.fn = "update_storage_field_from_response"
    /\ procs["p1"].call.name # procs["p2"].call.name
    /\ Len(Loads(disk.text).ret.teams) = 1

====
